---- MODULE Spec2Model ----
(***************************************************************************)
(* geek-cache: the registry-driven peer picker (ClientPicker) and the RPC  *)
(* server (Server) of package geek.                                        *)
(*                                                                         *)
(* Go strings that the code slices or searches are sequences of            *)
(* one-character strings, so that strings.Index and key[i:] are computed,  *)
(* not assumed.                                                            *)
(***************************************************************************)
EXTENDS Integers, Sequences, FiniteSets, Bags, TLC

VARIABLES
    consHash,    \* ClientPicker.consHash: [keys: sorted positions, hashMap: position -> address]
    clients,     \* ClientPicker.clients: address -> *Client
    writer,      \* ClientPicker.mu, write side: "none", "sync" or "handler"
    reading,     \* ClientPicker.mu, read side: the number of PickPeer calls inside RLock
    picked,      \* the result of the PickPeer call that returned last
    mid,         \* the set/remove call in progress: ring updated, client map not yet
    registry,    \* etcd: the keys present
    watchState,  \* "none", "live" or "closed"
    watchCh,     \* the watch channel: responses not yet received, each a sequence of events
    pending,     \* handler goroutines spawned and not yet past picker.mu.Lock(): a bag of responses
    cur,         \* the events the running handler goroutine has still to process
    wPc,         \* watch goroutine
    sPc,         \* full-sync goroutine
    kvs,         \* full-sync goroutine: the key-values still to process
    rPc,         \* register goroutine
    regErr,      \* what registry.Register returned
    stopSignal,  \* ClientPicker.stopSignal: "nil", "open" or "closed"
    exitCause,   \* "none" while the process runs, else what ended it
    changes,     \* registry changes made by other peers so far
    delSeen,     \* history: addresses deleted from the registry while members and watched
    afterDrop,   \* history: addresses whose key changed after the watch dropped
    groups,      \* the process-wide name -> Group map: the names registered
    cache,       \* each group's main cache: key -> bytes
    rpc,         \* the last RPC the server answered: the request and the reply
    groupRet,    \* what the Group method called by that RPC returned, if one was called
    effects,     \* what that RPC did to the group: peer contacted, loader invoked, cache changed
    rpcSeq,      \* the number of RPCs answered
    sfMap,       \* single-flight: key -> the in-flight call (an index into sfCalls)
    sfCalls,     \* single-flight: the call objects made so far
    fnCount,     \* single-flight: the number of times fn was invoked
    doers,       \* single-flight: each Do call: where it is, its key, its call object, what it returned
    lruMax,      \* LRU: max_bytes, 0 = unbounded
    lru,         \* LRU: the entries, least recently used first
    lruBytes,    \* LRU: current_bytes
    lruLast,     \* LRU, history: the last operation, the list it evicted from, the entries it evicted
    status,      \* Server.status
    srvMu,       \* Server.mu: 0 when free, else the Start call that holds it
    starts,      \* each Start call: where it is and what it returned
    listeners,   \* history: the Start calls whose net.Listen opened a listener
    sArg,        \* Set-based picker: the self address passed to NewClientPicker
    sSelf,       \* Set-based picker: ClientPicker.self
    sConsHash,   \* Set-based picker: ClientPicker.consHash
    sClients,    \* Set-based picker: ClientPicker.clients
    sPicked      \* Set-based picker: the last PickPeer call and what it returned

vars == <<consHash, clients, writer, reading, picked, mid, registry, watchState,
          watchCh, pending, cur, wPc, sPc, kvs, rPc, regErr, stopSignal,
          exitCause, changes, delSeen, afterDrop,
          groups, cache, rpc, groupRet, effects, rpcSeq,
          sfMap, sfCalls, fnCount, doers,
          lruMax, lru, lruBytes, lruLast,
          status, srvMu, starts, listeners,
          sArg, sSelf, sConsHash, sClients, sPicked>>

pickerVars == <<consHash, clients, mid>>
lockVars == <<writer, reading, picked>>
etcdVars == <<registry, watchState, watchCh, changes, delSeen, afterDrop>>
watchVars == <<pending, cur, wPc>>
syncVars == <<sPc, kvs>>
regVars == <<rPc, regErr, stopSignal>>
serverVars == <<groups, cache, rpc, groupRet, effects, rpcSeq>>
agentVars == <<pickerVars, lockVars, etcdVars, watchVars, syncVars, regVars, exitCause>>
flightVars == <<sfMap, sfCalls, fnCount, doers>>
lruVars == <<lruMax, lru, lruBytes, lruLast>>
startVars == <<status, srvMu, starts, listeners>>
peersVars == <<sArg, sSelf, sConsHash, sClients, sPicked>>
restVars == <<flightVars, lruVars, startVars, peersVars>>
outsideFlight == <<agentVars, serverVars, lruVars, startVars, peersVars>>
outsideLru == <<agentVars, serverVars, flightVars, startVars, peersVars>>
outsideStart == <<agentVars, serverVars, flightVars, lruVars, peersVars>>
outsidePeers == <<agentVars, serverVars, flightVars, lruVars, startVars>>

---------------------------------------------------------------------------
(* Bounds *)
\* MaxChanges: puts and deletes of peer keys by other processes
\* MaxReaders: PickPeer calls inside the read lock at one time
\* MaxSpins:   handlers of zero-value responses (closed watch channel) waiting at one time
\* MaxRpcs:    RPCs the server answers
\* Replicas:   virtual nodes per address (consistenthash.Replicas)
\* MaxCallers: Do calls made on the single-flight coordinator
\* MaxStarts:  Start calls made on the server
MaxChanges == 2
MaxReaders == 1
MaxSpins == 1
MaxRpcs == 3
Replicas == 2
MaxCallers == 3
MaxStarts == 3

---------------------------------------------------------------------------
(* Strings *)
EmptyString == << >>
ServiceName == <<"g", "c">>
Self == <<"A">>
RemotePeers == {<<"B">>}
PickKeys == {<<"k">>, <<"j">>}

Range(f) == {f[x] : x \in DOMAIN f}

Min(S) == CHOOSE x \in S : \A y \in S : x <= y

\* strings.Index(s, sub): the 0-based index of the first occurrence, -1 if none
Index(s, sub) ==
    LET hits == {i \in 0..(Len(s) - Len(sub)) : SubSeq(s, i + 1, i + Len(sub)) = sub}
    IN IF hits = {} THEN -1 ELSE Min(hits)

\* the byte order of the characters the model's strings use
Ord(c) ==
    CASE c = "/" -> 47 [] c = "0" -> 48 [] c = "1" -> 49 [] c = "2" -> 50
      [] c = "3" -> 51 [] c = "A" -> 65 [] c = "B" -> 66 [] c = "C" -> 67
      [] c = "W" -> 87 [] c = "c" -> 99 [] c = "g" -> 103 [] c = "j" -> 106
      [] c = "k" -> 107

RECURSIVE StrLess(_, _)
StrLess(s, t) ==
    IF t = << >> THEN FALSE
    ELSE IF s = << >> THEN TRUE
    ELSE IF Head(s) = Head(t) THEN StrLess(Tail(s), Tail(t))
    ELSE Ord(Head(s)) < Ord(Head(t))

\* strconv.Itoa(i) for the replica indexes
Decimal(i) ==
    CASE i = 0 -> <<"0">> [] i = 1 -> <<"1">> [] i = 2 -> <<"2">> [] i = 3 -> <<"3">>

\* crc32.ChecksumIEEE(s), shifted right by one bit to fit TLC's integers
\* (the order and the distinctness of the values are kept)
Crc32(s) ==
    CASE s = <<"0","A">> -> 1336027781
      [] s = <<"1","A">> -> 1127199269
      [] s = <<"2","A">> -> 1454971844
      [] s = <<"3","A">> -> 1513390948
      [] s = <<"0","B">> -> 52855384
      [] s = <<"1","B">> -> 262871800
      [] s = <<"2","B">> -> 440251161
      [] s = <<"3","B">> -> 380644281
      [] s = <<"0","C">> -> 950344211
      [] s = <<"1","C">> -> 875070131
      [] s = <<"2","C">> -> 566111058
      [] s = <<"3","C">> -> 758363122
      [] s = <<"0","/","B">> -> 686953001
      [] s = <<"1","/","B">> -> 672343858
      [] s = <<"2","/","B">> -> 691042334
      [] s = <<"3","/","B">> -> 701582597
      [] s = <<"k">> -> 70331310
      [] s = <<"j">> -> 1068676069
      [] s = <<"W">> -> 327587309

---------------------------------------------------------------------------
(* consistenthash.Map *)

RECURSIVE Insert(_, _)
Insert(s, h) ==
    IF s = << >> THEN <<h>>
    ELSE IF h <= Head(s) THEN <<h>> \o s
    ELSE <<Head(s)>> \o Insert(Tail(s), h)

\* sort.Ints
RECURSIVE SortInts(_)
SortInts(s) == IF s = << >> THEN << >> ELSE Insert(SortInts(Tail(s)), Head(s))

RECURSIVE Filter(_, _, _)
Filter(s, hashMap, addr) ==
    IF s = << >> THEN << >>
    ELSE IF hashMap[Head(s)] = addr THEN Filter(Tail(s), hashMap, addr)
    ELSE <<Head(s)>> \o Filter(Tail(s), hashMap, addr)

ReplicaHashes(addr) == [i \in 1..Replicas |-> Crc32(Decimal(i - 1) \o addr)]

New == [keys |-> << >>, hashMap |-> << >>]

Add(m, addr) ==
    LET hs == ReplicaHashes(addr)
    IN [keys |-> SortInts(m.keys \o hs),
        hashMap |-> [h \in DOMAIN m.hashMap \cup Range(hs) |->
                        IF h \in Range(hs) THEN addr ELSE m.hashMap[h]]]

Remove(m, addr) ==
    [keys |-> Filter(m.keys, m.hashMap, addr),
     hashMap |-> [h \in {x \in DOMAIN m.hashMap : m.hashMap[x] # addr} |-> m.hashMap[h]]]

Get(m, key) ==
    IF Len(m.keys) = 0 THEN EmptyString
    ELSE LET h == Crc32(key)
             at == {i \in 1..Len(m.keys) : m.keys[i] >= h}
             idx == IF at = {} THEN 1 ELSE Min(at)
         IN m.hashMap[m.keys[idx]]

RingAddrs == Range(consHash.hashMap)

---------------------------------------------------------------------------
(* ClientPicker *)

NilClient == [nil |-> TRUE, addr |-> EmptyString, service |-> EmptyString]
NewClient(addr, service) == [nil |-> FALSE, addr |-> addr, service |-> service]

\* clients[addr] of a Go map: the zero value (nil) for a missing key
ClientAt(cs, addr) == IF addr \in DOMAIN cs THEN cs[addr] ELSE NilClient

MapPut(cs, addr, c) == [a \in DOMAIN cs \cup {addr} |-> IF a = addr THEN c ELSE cs[a]]
MapDelete(cs, addr) == [a \in DOMAIN cs \ {addr} |-> cs[a]]

NoMid == [op |-> "none", addr |-> EmptyString]
NoPick == [key |-> EmptyString, peer |-> NilClient, ok |-> FALSE, isSelf |-> FALSE]

alive == exitCause = "none"

\* "{serviceName}/{addr}", the key registry.Register puts
KeyOf(addr) == ServiceName \o <<"/">> \o addr

\* idx := strings.Index(key, serviceName); addr := key[idx+len(serviceName)+1:]
AddrOf(key) ==
    LET idx == Index(key, ServiceName)
    IN SubSeq(key, idx + Len(ServiceName) + 2, Len(key))

\* a faulty variant of PickPeer: self is not a peer to return (peer != "" && peer != self)
PickPeer_NotSelf(m, cs, key) ==
    LET peer == Get(m, key)
    IN IF peer # EmptyString /\ peer # Self
       THEN [key |-> key, peer |-> ClientAt(cs, peer), ok |-> TRUE, isSelf |-> FALSE]
       ELSE [key |-> key, peer |-> NilClient, ok |-> FALSE, isSelf |-> FALSE]

\* the body of PickPeer between RLock and RUnlock
PickPeer(m, cs, key) ==
    LET peer == Get(m, key)
    IN IF peer # EmptyString
       THEN [key |-> key, peer |-> ClientAt(cs, peer), ok |-> TRUE, isSelf |-> (peer = Self)]
       ELSE [key |-> key, peer |-> NilClient, ok |-> FALSE, isSelf |-> FALSE]

\* a faulty variant of CanLock: the agent takes the lock without waiting for the readers
CanLock_IgnoresReaders == writer = "none"

\* sync.RWMutex: Lock waits for the writer and the readers, RLock for the writer
CanLock == writer = "none" /\ reading = 0
CanRLock == writer = "none"

PickPeerRLock ==
    /\ alive
    /\ UNCHANGED <<serverVars, restVars>>
    /\ reading < MaxReaders
    /\ CanRLock
    /\ reading' = reading + 1
    /\ UNCHANGED <<writer, picked>>
    /\ UNCHANGED <<pickerVars, etcdVars, watchVars, syncVars, regVars, exitCause>>

PickPeerReturn(key) ==
    /\ alive
    /\ UNCHANGED <<serverVars, restVars>>
    /\ reading > 0
    /\ picked' = PickPeer(consHash, clients, key)
    /\ reading' = reading - 1
    /\ UNCHANGED writer
    /\ UNCHANGED <<pickerVars, etcdVars, watchVars, syncVars, regVars, exitCause>>

\* a faulty variant of Known: the client map is not consulted
Known_Never(cs, addr) == FALSE

\* "_, ok := picker.clients[addr]": the guard of every set and remove
Known(cs, addr) == addr \in DOMAIN cs

\* set and remove: the ring first, the client map second
SetRing(addr) ==
    /\ consHash' = Add(consHash, addr)
    /\ mid' = [op |-> "set", addr |-> addr]
    /\ UNCHANGED clients

RemoveRing(addr) ==
    /\ consHash' = Remove(consHash, addr)
    /\ mid' = [op |-> "remove", addr |-> addr]
    /\ UNCHANGED clients

\* the second statement of set or remove, then on to the next event or key-value
MutateClients ==
    /\ alive
    /\ UNCHANGED <<serverVars, restVars>>
    /\ mid.op # "none"
    /\ clients' = IF mid.op = "set"
                  THEN MapPut(clients, mid.addr, NewClient(mid.addr, ServiceName))
                  ELSE MapDelete(clients, mid.addr)
    /\ mid' = NoMid
    /\ IF writer = "sync"
       THEN kvs' = Tail(kvs) /\ UNCHANGED cur
       ELSE cur' = Tail(cur) /\ UNCHANGED kvs
    /\ UNCHANGED <<consHash, lockVars, etcdVars, pending, wPc, sPc, regVars, exitCause>>

---------------------------------------------------------------------------
(* etcd, as the picker sees it *)

Event(key, type, create) == [key |-> key, type |-> type, create |-> create]

\* clientv3 Event.IsCreate: a put whose create revision is its mod revision
IsCreate(x) == x.type = "PUT" /\ x.create

\* a live watch gets the event, in a response of its own or in the one still queued
Emitted(ev) ==
    IF watchState # "live" THEN {watchCh}
    ELSE {Append(watchCh, <<ev>>)} \cup
         (IF watchCh = << >> THEN {}
          ELSE {[watchCh EXCEPT ![Len(watchCh)] = Append(@, ev)]})

Note(addr) ==
    afterDrop' = IF watchState = "closed" THEN afterDrop \cup {addr} ELSE afterDrop

EtcdPut(addr) ==
    /\ alive
    /\ UNCHANGED <<serverVars, restVars>>
    /\ changes < MaxChanges
    /\ changes' = changes + 1
    /\ registry' = registry \cup {KeyOf(addr)}
    /\ watchCh' \in Emitted(Event(KeyOf(addr), "PUT", KeyOf(addr) \notin registry))
    /\ delSeen' = delSeen \ {addr}
    /\ Note(addr)
    /\ UNCHANGED <<watchState, pickerVars, lockVars, watchVars, syncVars, regVars, exitCause>>

EtcdDelete(addr) ==
    /\ alive
    /\ UNCHANGED <<serverVars, restVars>>
    /\ changes < MaxChanges
    /\ KeyOf(addr) \in registry
    /\ changes' = changes + 1
    /\ registry' = registry \ {KeyOf(addr)}
    /\ watchCh' \in Emitted(Event(KeyOf(addr), "DELETE", FALSE))
    /\ delSeen' = IF /\ watchState = "live"
                     /\ addr \in DOMAIN clients
                     /\ addr \in RingAddrs
                  THEN delSeen \cup {addr} ELSE delSeen
    /\ Note(addr)
    /\ UNCHANGED <<watchState, pickerVars, lockVars, watchVars, syncVars, regVars, exitCause>>

\* a key of another service whose name starts with this service's name
ForeignKey == ServiceName \o <<"2", "/", "B">>

\* a process of that other service registers itself
EtcdPutForeign ==
    /\ alive
    /\ UNCHANGED <<serverVars, restVars>>
    /\ changes < MaxChanges
    /\ changes' = changes + 1
    /\ registry' = registry \cup {ForeignKey}
    /\ watchCh' \in Emitted(Event(ForeignKey, "PUT", ForeignKey \notin registry))
    /\ UNCHANGED <<watchState, delSeen, afterDrop>>
    /\ UNCHANGED <<pickerVars, lockVars, watchVars, syncVars, regVars, exitCause>>

\* the watch stream ends: the client closes the channel
WatchDrop ==
    /\ alive
    /\ UNCHANGED <<serverVars, restVars>>
    /\ watchState = "live"
    /\ watchState' = "closed"
    /\ UNCHANGED <<registry, watchCh, changes, delSeen, afterDrop>>
    /\ UNCHANGED <<pickerVars, lockVars, watchVars, syncVars, regVars, exitCause>>

---------------------------------------------------------------------------
(* NewClientPicker: the watch goroutine *)

WatchNewClient ==
    /\ alive
    /\ UNCHANGED <<serverVars, restVars>>
    /\ wPc = "new"
    /\ \/ wPc' = "watch" /\ UNCHANGED exitCause
       \/ exitCause' = "watch: clientv3.New" /\ UNCHANGED wPc
    /\ UNCHANGED <<pickerVars, lockVars, etcdVars, pending, cur, syncVars, regVars>>

WatchEstablish ==
    /\ alive
    /\ UNCHANGED <<serverVars, restVars>>
    /\ wPc = "watch"
    /\ wPc' = "loop"
    /\ watchState' = "live"
    /\ UNCHANGED <<registry, watchCh, changes, delSeen, afterDrop>>
    /\ UNCHANGED <<pickerVars, lockVars, pending, cur, syncVars, regVars, exitCause>>

\* a := <-watchCh; go func() { ... }()
WatchRecv ==
    /\ alive
    /\ UNCHANGED <<serverVars, restVars>>
    /\ wPc = "loop"
    /\ \/ /\ watchCh # << >>
          /\ pending' = pending (+) SetToBag({Head(watchCh)})
          /\ watchCh' = Tail(watchCh)
       \/ /\ watchCh = << >>
          /\ watchState = "closed"
          /\ CopiesIn(<< >>, pending) < MaxSpins
          /\ pending' = pending (+) SetToBag({<< >>})
          /\ UNCHANGED watchCh
    /\ UNCHANGED <<registry, watchState, changes, delSeen, afterDrop>>
    /\ UNCHANGED <<pickerVars, lockVars, cur, wPc, syncVars, regVars, exitCause>>

HandlerLock ==
    /\ alive
    /\ UNCHANGED <<serverVars, restVars>>
    /\ CanLock
    /\ \E a \in BagToSet(pending) :
          /\ pending' = pending (-) SetToBag({a})
          /\ cur' = a
    /\ writer' = "handler"
    /\ UNCHANGED <<reading, picked, pickerVars, etcdVars, wPc, syncVars, regVars, exitCause>>

\* a faulty variant of SkipsEvent: events that name self are handled like any other
SkipsEvent_Never(addr) == FALSE

\* if addr == picker.self { continue }
SkipsEvent(addr) == addr = Self

HandlerEvent ==
    /\ alive
    /\ UNCHANGED <<serverVars, restVars>>
    /\ writer = "handler"
    /\ mid.op = "none"
    /\ cur # << >>
    /\ LET x == Head(cur)
           addr == AddrOf(x.key)
       IN \/ /\ SkipsEvent(addr)
             /\ cur' = Tail(cur)
             /\ UNCHANGED pickerVars
          \/ /\ ~SkipsEvent(addr)
             /\ IsCreate(x)
             /\ IF ~Known(clients, addr)
                THEN SetRing(addr) /\ UNCHANGED cur
                ELSE cur' = Tail(cur) /\ UNCHANGED pickerVars
          \/ /\ ~SkipsEvent(addr)
             /\ ~IsCreate(x)
             /\ x.type = "DELETE"
             /\ IF Known(clients, addr)
                THEN RemoveRing(addr) /\ UNCHANGED cur
                ELSE cur' = Tail(cur) /\ UNCHANGED pickerVars
          \/ /\ ~SkipsEvent(addr)
             /\ ~IsCreate(x)
             /\ x.type # "DELETE"
             /\ cur' = Tail(cur)
             /\ UNCHANGED pickerVars
    /\ UNCHANGED <<lockVars, etcdVars, pending, wPc, syncVars, regVars, exitCause>>

HandlerUnlock ==
    /\ alive
    /\ UNCHANGED <<serverVars, restVars>>
    /\ writer = "handler"
    /\ mid.op = "none"
    /\ cur = << >>
    /\ writer' = "none"
    /\ UNCHANGED <<reading, picked, pickerVars, etcdVars, watchVars, syncVars, regVars, exitCause>>

---------------------------------------------------------------------------
(* NewClientPicker: the full-sync goroutine *)

RECURSIVE SortedKeys(_)
\* the key-values of a range read, in key order
SortedKeys(S) ==
    IF S = {} THEN << >>
    ELSE LET k == CHOOSE x \in S : \A y \in S \ {x} : StrLess(x, y)
         IN <<k>> \o SortedKeys(S \ {k})

SyncLock ==
    /\ alive
    /\ UNCHANGED <<serverVars, restVars>>
    /\ sPc = "start"
    /\ CanLock
    /\ writer' = "sync"
    /\ sPc' = "new"
    /\ UNCHANGED <<reading, picked, kvs, pickerVars, etcdVars, watchVars, regVars, exitCause>>

SyncNewClient ==
    /\ alive
    /\ UNCHANGED <<serverVars, restVars>>
    /\ sPc = "new"
    /\ \/ sPc' = "get" /\ UNCHANGED exitCause
       \/ exitCause' = "sync: clientv3.New" /\ UNCHANGED sPc
    /\ UNCHANGED <<kvs, pickerVars, lockVars, etcdVars, watchVars, regVars>>

SyncGet ==
    /\ alive
    /\ UNCHANGED <<serverVars, restVars>>
    /\ sPc = "get"
    /\ \/ /\ kvs' = SortedKeys(registry)
          /\ sPc' = "loop"
          /\ UNCHANGED exitCause
       \/ /\ exitCause' = "sync: cli.Get"
          /\ UNCHANGED <<sPc, kvs>>
    /\ UNCHANGED <<pickerVars, lockVars, etcdVars, watchVars, regVars>>

SyncKv ==
    /\ alive
    /\ UNCHANGED <<serverVars, restVars>>
    /\ sPc = "loop"
    /\ mid.op = "none"
    /\ kvs # << >>
    /\ LET addr == AddrOf(Head(kvs))
       IN IF ~Known(clients, addr)
          THEN SetRing(addr) /\ UNCHANGED kvs
          ELSE kvs' = Tail(kvs) /\ UNCHANGED pickerVars
    /\ UNCHANGED <<sPc, lockVars, etcdVars, watchVars, regVars, exitCause>>

SyncUnlock ==
    /\ alive
    /\ UNCHANGED <<serverVars, restVars>>
    /\ sPc = "loop"
    /\ mid.op = "none"
    /\ kvs = << >>
    /\ sPc' = "done"
    /\ writer' = "none"
    /\ UNCHANGED <<reading, picked, kvs, pickerVars, etcdVars, watchVars, regVars, exitCause>>

---------------------------------------------------------------------------
(* NewClientPicker: the register goroutine, and registry.Register *)

\* Register puts "{serviceName}/{self}" under a lease, or fails before it
RegisterPut ==
    /\ alive
    /\ UNCHANGED <<serverVars, restVars>>
    /\ rPc = "start"
    /\ \/ /\ rPc' = "keepalive"
          /\ registry' = registry \cup {KeyOf(Self)}
          /\ watchCh' \in Emitted(Event(KeyOf(Self), "PUT", KeyOf(Self) \notin registry))
          /\ UNCHANGED regErr
       \/ /\ rPc' = "returned"
          /\ regErr' = "error"
          /\ UNCHANGED <<registry, watchCh>>
    /\ UNCHANGED <<watchState, changes, delSeen, afterDrop, stopSignal>>
    /\ UNCHANGED <<pickerVars, lockVars, watchVars, syncVars, exitCause>>

\* the keep-alive channel closes: Register revokes the lease and returns
KeepAliveEnds ==
    /\ alive
    /\ UNCHANGED <<serverVars, restVars>>
    /\ rPc = "keepalive"
    /\ rPc' = "returned"
    /\ \/ /\ regErr' = "nil"
          /\ registry' = registry \ {KeyOf(Self)}
          /\ watchCh' \in Emitted(Event(KeyOf(Self), "DELETE", FALSE))
       \/ /\ regErr' = "error"
          /\ UNCHANGED <<registry, watchCh>>
    /\ UNCHANGED <<watchState, changes, delSeen, afterDrop, stopSignal>>
    /\ UNCHANGED <<pickerVars, lockVars, watchVars, syncVars, exitCause>>

\* after Register: log.Fatalf on an error, else close(picker.stopSignal)
RegisterReturned ==
    /\ alive
    /\ UNCHANGED <<serverVars, restVars>>
    /\ rPc = "returned"
    /\ IF regErr # "nil"
       THEN exitCause' = "register: log.Fatalf" /\ UNCHANGED <<rPc, stopSignal>>
       ELSE IF stopSignal = "nil"
       THEN exitCause' = "register: close of nil channel" /\ UNCHANGED <<rPc, stopSignal>>
       ELSE stopSignal' = "closed" /\ rPc' = "done" /\ UNCHANGED exitCause
    /\ UNCHANGED <<regErr, pickerVars, lockVars, etcdVars, watchVars, syncVars>>

---------------------------------------------------------------------------
(* Group, as the server uses it *)

NoBytes == ""
NilGroup == ""
GroupNames == {"scores", "ghost"}
RpcKeys == {"", "Tom", "x"}

\* the loader of the README's server: the mock database
Loader(key) ==
    IF key = "Tom" THEN [val |-> "630", err |-> "nil"]
    ELSE [val |-> NoBytes, err |-> "not found"]

\* what the owning peer may answer to a forwarded Get or Delete
PeerGetAnswers(key) == {Loader(key), [val |-> NoBytes, err |-> "peer unavailable"]}
PeerDeleteAnswers ==
    {[flag |-> TRUE, err |-> "nil"], [flag |-> FALSE, err |-> "nil"],
     [flag |-> FALSE, err |-> "peer unavailable"]}

GetGroup(gs, name) == IF name \in gs THEN name ELSE NilGroup

NotCalled == [called |-> FALSE, val |-> NoBytes, flag |-> FALSE, err |-> "nil"]

\* Group.Get: the cache, else the owning peer, else the loader
GroupGet(c, name, key, owner, peer) ==
    IF key = ""
    THEN [val |-> NoBytes, err |-> "key is required", cache |-> c, effects |-> {}]
    ELSE IF key \in DOMAIN c[name]
    THEN [val |-> c[name][key], err |-> "nil", cache |-> c, effects |-> {}]
    ELSE IF owner = "remote"
    THEN [val |-> peer.val, err |-> peer.err, cache |-> c, effects |-> {"peer"}]
    ELSE LET r == Loader(key)
         IN IF r.err # "nil"
            THEN [val |-> NoBytes, err |-> r.err, cache |-> c, effects |-> {"loader"}]
            ELSE [val |-> r.val, err |-> "nil",
                  cache |-> [c EXCEPT ![name] = MapPut(@, key, r.val)],
                  effects |-> {"loader", "cache insert"}]

\* Group.Delete: forwarded to the owning peer, or done on the local cache
GroupDelete(c, name, key, owner, peer) ==
    LET present == key \in DOMAIN c[name]
        purged == [c EXCEPT ![name] = MapDelete(@, key)]
        removal == IF present THEN {"cache remove"} ELSE {}
    IN IF owner = "remote"
       THEN IF peer.err # "nil"
            THEN [flag |-> FALSE, err |-> peer.err, cache |-> c, effects |-> {"peer"}]
            ELSE [flag |-> peer.flag, err |-> "nil", cache |-> purged,
                  effects |-> {"peer"} \cup removal]
       ELSE [flag |-> present, err |-> "nil", cache |-> purged, effects |-> removal]

\* ByteView.ByteSLice: a copy of the bytes
ByteSLice(v) == v

NewGroup(name) ==
    /\ name \notin groups
    /\ groups' = groups \cup {name}
    /\ cache' = MapPut(cache, name, << >>)
    /\ UNCHANGED <<rpc, groupRet, effects, rpcSeq>>
    /\ UNCHANGED <<agentVars, restVars>>

---------------------------------------------------------------------------
(* Server *)

\* a faulty variant of Get: the group is looked up before the key is checked
ServerGetReply_GroupFirst(gs, c, group, key, owner, peer) ==
    IF GetGroup(gs, group) = NilGroup
    THEN [value |-> NoBytes, err |-> "group not found", ret |-> NotCalled,
          cache |-> c, effects |-> {}]
    ELSE IF key = ""
    THEN [value |-> NoBytes, err |-> "key required", ret |-> NotCalled,
          cache |-> c, effects |-> {}]
    ELSE LET r == GroupGet(c, group, key, owner, peer)
         IN [value |-> IF r.err # "nil" THEN NoBytes ELSE ByteSLice(r.val),
             err |-> r.err,
             ret |-> [called |-> TRUE, val |-> r.val, flag |-> FALSE, err |-> r.err],
             cache |-> r.cache, effects |-> r.effects]

\* Server.Get: the reply, what the group returned, and the group's state after it
ServerGetReply(gs, c, group, key, owner, peer) ==
    IF key = ""
    THEN [value |-> NoBytes, err |-> "key required", ret |-> NotCalled,
          cache |-> c, effects |-> {}]
    ELSE IF GetGroup(gs, group) = NilGroup
    THEN [value |-> NoBytes, err |-> "group not found", ret |-> NotCalled,
          cache |-> c, effects |-> {}]
    ELSE LET r == GroupGet(c, group, key, owner, peer)
         IN [value |-> IF r.err # "nil" THEN NoBytes ELSE ByteSLice(r.val),
             err |-> r.err,
             ret |-> [called |-> TRUE, val |-> r.val, flag |-> FALSE, err |-> r.err],
             cache |-> r.cache, effects |-> r.effects]

\* a faulty variant of Delete: the key is checked after the group's Delete has run
ServerDeleteReply_KeyCheckedLate(gs, c, group, key, owner, peer) ==
    IF GetGroup(gs, group) = NilGroup
    THEN [flag |-> FALSE, err |-> "group not found", ret |-> NotCalled,
          cache |-> c, effects |-> {}]
    ELSE LET r == GroupDelete(c, group, key, owner, peer)
         IN [flag |-> IF r.err # "nil" \/ key = "" THEN FALSE ELSE r.flag,
             err |-> IF key = "" THEN "key required" ELSE r.err,
             ret |-> [called |-> TRUE, val |-> NoBytes, flag |-> r.flag, err |-> r.err],
             cache |-> r.cache, effects |-> r.effects]

\* Server.Delete: the reply, what the group returned, and the group's state after it
ServerDeleteReply(gs, c, group, key, owner, peer) ==
    IF key = ""
    THEN [flag |-> FALSE, err |-> "key required", ret |-> NotCalled,
          cache |-> c, effects |-> {}]
    ELSE IF GetGroup(gs, group) = NilGroup
    THEN [flag |-> FALSE, err |-> "group not found", ret |-> NotCalled,
          cache |-> c, effects |-> {}]
    ELSE LET r == GroupDelete(c, group, key, owner, peer)
         IN [flag |-> IF r.err # "nil" THEN FALSE ELSE r.flag,
             err |-> r.err,
             ret |-> [called |-> TRUE, val |-> NoBytes, flag |-> r.flag, err |-> r.err],
             cache |-> r.cache, effects |-> r.effects]

ServerGet(group, key, owner, peer) ==
    /\ rpcSeq < MaxRpcs
    /\ rpcSeq' = rpcSeq + 1
    /\ LET r == ServerGetReply(groups, cache, group, key, owner, peer)
       IN /\ rpc' = [method |-> "Get", group |-> group, key |-> key,
                     value |-> r.value, flag |-> FALSE, err |-> r.err]
          /\ groupRet' = r.ret
          /\ cache' = r.cache
          /\ effects' = r.effects
    /\ UNCHANGED groups
    /\ UNCHANGED <<agentVars, restVars>>

ServerDelete(group, key, owner, peer) ==
    /\ rpcSeq < MaxRpcs
    /\ rpcSeq' = rpcSeq + 1
    /\ LET r == ServerDeleteReply(groups, cache, group, key, owner, peer)
       IN /\ rpc' = [method |-> "Delete", group |-> group, key |-> key,
                     value |-> NoBytes, flag |-> r.flag, err |-> r.err]
          /\ groupRet' = r.ret
          /\ cache' = r.cache
          /\ effects' = r.effects
    /\ UNCHANGED groups
    /\ UNCHANGED <<agentVars, restVars>>

NoRpc == [method |-> "none", group |-> "", key |-> "", value |-> NoBytes,
          flag |-> FALSE, err |-> "nil"]

---------------------------------------------------------------------------
(* The single-flight coordinator: Do(key, fn) *)

Callers == 1 .. MaxCallers
FlightKeys == {"k", "j"}
FnErrors == {"nil", "failed"}

\* a call object before fn has returned
NewCall == [val |-> 0, err |-> "nil", done |-> FALSE, dups |-> 0, runs |-> 0]
NoRet == [val |-> 0, err |-> "nil", shared |-> FALSE]
IdleDoer == [pc |-> "idle", key |-> "", call |-> 0, ret |-> NoRet]

\* a faulty variant of HasEntry: the in-flight entry is never found
HasEntry_Never(m, key) == FALSE

\* step 1: "if an entry for key exists"
HasEntry(m, key) == key \in DOMAIN m

\* the pcs of a Do call between inserting its entry and removing it
Leading == {"call", "signal", "remove"}

\* steps 1 and 2 under the map's lock: join the in-flight call, or insert a new one
DoLock(c, key) ==
    /\ doers[c].pc = "idle"
    /\ IF HasEntry(sfMap, key)
       THEN /\ sfCalls' = [sfCalls EXCEPT ![sfMap[key]].dups = @ + 1]
            /\ doers' = [doers EXCEPT ![c] = [@ EXCEPT !.pc = "wait", !.key = key,
                                                        !.call = sfMap[key]]]
            /\ UNCHANGED sfMap
       ELSE /\ sfCalls' = Append(sfCalls, NewCall)
            /\ sfMap' = MapPut(sfMap, key, Len(sfCalls) + 1)
            /\ doers' = [doers EXCEPT ![c] = [@ EXCEPT !.pc = "call", !.key = key,
                                                        !.call = Len(sfCalls) + 1]]
    /\ UNCHANGED fnCount
    /\ UNCHANGED outsideFlight

\* step 2, no lock held: fn is invoked and its result and error are captured;
\* every invocation of fn yields a result of its own
DoCall(c, err) ==
    /\ doers[c].pc = "call"
    /\ fnCount' = fnCount + 1
    /\ sfCalls' = [sfCalls EXCEPT ![doers[c].call] =
                       [@ EXCEPT !.val = fnCount + 1, !.err = err, !.runs = @ + 1]]
    /\ doers' = [doers EXCEPT ![c].pc = "signal"]
    /\ UNCHANGED sfMap
    /\ UNCHANGED outsideFlight

\* step 2: signal completion
DoSignal(c) ==
    /\ doers[c].pc = "signal"
    /\ sfCalls' = [sfCalls EXCEPT ![doers[c].call].done = TRUE]
    /\ doers' = [doers EXCEPT ![c].pc = "remove"]
    /\ UNCHANGED <<sfMap, fnCount>>
    /\ UNCHANGED outsideFlight

\* step 2: re-lock, remove the entry, unlock, return with shared = false
DoRemove(c) ==
    /\ doers[c].pc = "remove"
    /\ sfMap' = MapDelete(sfMap, doers[c].key)
    /\ doers' = [doers EXCEPT ![c] = [@ EXCEPT !.pc = "done",
                     !.ret = [val |-> sfCalls[doers[c].call].val,
                              err |-> sfCalls[doers[c].call].err, shared |-> FALSE]]]
    /\ UNCHANGED <<sfCalls, fnCount>>
    /\ UNCHANGED outsideFlight

\* step 1: a waiter is released by the completion signal and returns with shared = true
DoWake(c) ==
    /\ doers[c].pc = "wait"
    /\ sfCalls[doers[c].call].done
    /\ doers' = [doers EXCEPT ![c] = [@ EXCEPT !.pc = "done",
                     !.ret = [val |-> sfCalls[doers[c].call].val,
                              err |-> sfCalls[doers[c].call].err, shared |-> TRUE]]]
    /\ UNCHANGED <<sfMap, sfCalls, fnCount>>
    /\ UNCHANGED outsideFlight

---------------------------------------------------------------------------
(* The LRU cache *)

LruKeys == {<<"a">>, <<"b">>, <<"c", "c">>}
LruValues == {<<"1">>, <<"1", "2", "3">>}
LruMaxes == {0, 4}

\* len(key) + len(value)
EntrySize(e) == Len(e.key) + Len(e.value)

\* the position of key in the list, 0 if absent
RECURSIVE LruIndex(_, _)
LruIndex(ll, key) ==
    IF ll = << >> THEN 0
    ELSE IF ll[Len(ll)].key = key THEN Len(ll)
    ELSE LruIndex(SubSeq(ll, 1, Len(ll) - 1), key)

\* the list without its i-th entry
Without(ll, i) == SubSeq(ll, 1, i - 1) \o SubSeq(ll, i + 1, Len(ll))

\* evict the LRU-end entry, decrement bytes, hand it to the eviction callback
RemoveOldest(st) ==
    [st EXCEPT !.ll = Tail(st.ll),
               !.bytes = st.bytes - EntrySize(Head(st.ll)),
               !.out = Append(st.out, Head(st.ll))]

\* "while max_bytes > 0 and current_bytes > max_bytes, evict the LRU-end entry"
RECURSIVE EvictLoop(_)
EvictLoop(st) ==
    IF st.max > 0 /\ st.bytes > st.max THEN EvictLoop(RemoveOldest(st)) ELSE st

\* a faulty variant of Evict: at most one entry is evicted
Evict_Once(st) ==
    IF st.max > 0 /\ st.bytes > st.max THEN RemoveOldest(st) ELSE st

Evict(st) == EvictLoop(st)

\* add(key, value)
LruAdd(key, value) ==
    LET i == LruIndex(lru, key)
        e == [key |-> key, value |-> value]
        full == IF i > 0 THEN Append(Without(lru, i), e) ELSE Append(lru, e)
        bytes == IF i > 0 THEN lruBytes + Len(value) - Len(lru[i].value)
                          ELSE lruBytes + EntrySize(e)
        st == Evict([max |-> lruMax, ll |-> full, bytes |-> bytes, out |-> << >>])
    IN  /\ lru' = st.ll
        /\ lruBytes' = st.bytes
        /\ lruLast' = [op |-> "add", key |-> key, full |-> full, evicted |-> st.out]
        /\ UNCHANGED lruMax
        /\ UNCHANGED outsideLru

\* get(key): a hit promotes the entry to the MRU end
LruGet(key) ==
    LET i == LruIndex(lru, key)
    IN  /\ lru' = IF i > 0 THEN Append(Without(lru, i), lru[i]) ELSE lru
        /\ lruLast' = [op |-> "get", key |-> key, full |-> lru, evicted |-> << >>]
        /\ UNCHANGED <<lruMax, lruBytes>>
        /\ UNCHANGED outsideLru

\* delete(key): remove the entry, decrement bytes, invoke the eviction callback
LruDelete(key) ==
    LET i == LruIndex(lru, key)
    IN  /\ lru' = IF i > 0 THEN Without(lru, i) ELSE lru
        /\ lruBytes' = IF i > 0 THEN lruBytes - EntrySize(lru[i]) ELSE lruBytes
        /\ lruLast' = [op |-> "delete", key |-> key, full |-> lru,
                       evicted |-> IF i > 0 THEN <<lru[i]>> ELSE << >>]
        /\ UNCHANGED lruMax
        /\ UNCHANGED outsideLru

NoLruOp == [op |-> "none", key |-> << >>, full |-> << >>, evicted |-> << >>]

\* a new, empty LRU with the given max_bytes
LruNew(max) ==
    /\ lruMax' = max
    /\ lru' = << >>
    /\ lruBytes' = 0
    /\ lruLast' = NoLruOp
    /\ UNCHANGED outsideLru

---------------------------------------------------------------------------
(* Server.Start *)

StartCalls == 1 .. MaxStarts
NotStarted == [pc |-> "idle", ret |-> "none"]

\* a faulty variant of AlreadyRunning: the status flag is not consulted
AlreadyRunning_Never == FALSE

\* "if s.status"
AlreadyRunning == status

\* Start is called and comes to s.mu.Lock()
StartCall(c) ==
    /\ starts[c].pc = "idle"
    /\ starts' = [starts EXCEPT ![c].pc = "lock"]
    /\ UNCHANGED <<status, srvMu, listeners>>
    /\ UNCHANGED outsideStart

\* s.mu.Lock() returns
StartLock(c) ==
    /\ starts[c].pc = "lock"
    /\ srvMu = 0
    /\ srvMu' = c
    /\ starts' = [starts EXCEPT ![c].pc = "check"]
    /\ UNCHANGED <<status, listeners>>
    /\ UNCHANGED outsideStart

\* the status check: unlock and return the error, or s.status = true
StartCheck(c) ==
    /\ starts[c].pc = "check"
    /\ IF AlreadyRunning
       THEN /\ srvMu' = 0
            /\ starts' = [starts EXCEPT ![c] = [pc |-> "returned",
                                                ret |-> "server already running"]]
            /\ UNCHANGED status
       ELSE /\ status' = TRUE
            /\ starts' = [starts EXCEPT ![c].pc = "listen"]
            /\ UNCHANGED srvMu
    /\ UNCHANGED listeners
    /\ UNCHANGED outsideStart

\* net.Listen: on an error Start returns at once; else the gRPC server is set
\* up, the mutex unlocked and Serve entered
StartListen(c, ok) ==
    /\ starts[c].pc = "listen"
    /\ IF ok
       THEN /\ listeners' = listeners \cup {c}
            /\ srvMu' = 0
            /\ starts' = [starts EXCEPT ![c].pc = "serve"]
       ELSE /\ starts' = [starts EXCEPT ![c] = [pc |-> "returned",
                                                ret |-> "failed to listen"]]
            /\ UNCHANGED <<srvMu, listeners>>
    /\ UNCHANGED status
    /\ UNCHANGED outsideStart

\* grpcServer.Serve returns err: "s.status && err != nil" decides what Start returns
StartServeReturns(c, err) ==
    /\ starts[c].pc = "serve"
    /\ starts' = [starts EXCEPT ![c] = [pc |-> "returned",
                     ret |-> IF status /\ err # "nil" THEN "failed to serve" ELSE "nil"]]
    /\ UNCHANGED <<status, srvMu, listeners>>
    /\ UNCHANGED outsideStart

---------------------------------------------------------------------------
(* The Set-based ClientPicker of geek/peers.go *)

PeerLists == {<< <<"A">> >>, << <<"A">>, <<"B">> >>, << <<"B">>, <<"A">> >>,
              << <<"B">>, <<"C">> >>, << <<"A">>, <<"B">>, <<"C">> >>}
SelfArgs == {<<"A">>, <<"B">>}

\* the zero value of the consHash field
NilMap == [nil |-> TRUE, keys |-> << >>, hashMap |-> << >>]

\* NewClient(peer)
NewPeerClient(peer) == [nil |-> FALSE, addr |-> peer, service |-> EmptyString]

\* consistenthash.New(replicas, nil) followed by Add(peers...)
RECURSIVE AddPeers(_, _, _)
AddPeers(m, replicas, peers) ==
    IF peers = << >> THEN m
    ELSE LET hs == [i \in 1 .. replicas |-> Crc32(Decimal(i - 1) \o Head(peers))]
             m1 == [keys |-> SortInts(m.keys \o hs),
                    hashMap |-> [h \in DOMAIN m.hashMap \cup Range(hs) |->
                                    IF h \in Range(hs) THEN Head(peers) ELSE m.hashMap[h]]]
         IN AddPeers(m1, replicas, Tail(peers))

NoSetPick == [called |-> FALSE, key |-> EmptyString, owner |-> EmptyString,
              listed |-> FALSE, peer |-> NilClient, ok |-> FALSE]

\* NewClientPicker(self): "return &ClientPicker{}"
NewSetPicker(self) ==
    /\ sArg' = self
    /\ sSelf' = EmptyString
    /\ sConsHash' = NilMap
    /\ sClients' = << >>
    /\ sPicked' = NoSetPick
    /\ UNCHANGED outsidePeers

\* Set(peers...): a new ring of defaultReplicas, a new client map
Set(peers) ==
    /\ sConsHash' = AddPeers(New, Replicas, peers)
    /\ sClients' = [peer \in Range(peers) |-> NewPeerClient(peer)]
    /\ UNCHANGED <<sArg, sSelf, sPicked>>
    /\ UNCHANGED outsidePeers

\* SetWithReplicas(replicas, peers...)
SetWithReplicas(replicas, peers) ==
    /\ sConsHash' = AddPeers(New, replicas, peers)
    /\ sClients' = [peer \in Range(peers) |-> NewPeerClient(peer)]
    /\ UNCHANGED <<sArg, sSelf, sPicked>>
    /\ UNCHANGED outsidePeers

\* PickPeer(key) of a picker that has been populated
SetPickPeer(key) ==
    /\ "nil" \notin DOMAIN sConsHash
    /\ LET peer == Get(sConsHash, key)
           found == peer # EmptyString /\ peer # sSelf
       IN sPicked' = [called |-> TRUE, key |-> key, owner |-> peer,
                      listed |-> sArg \in DOMAIN sClients,
                      peer |-> IF found THEN ClientAt(sClients, peer) ELSE NilClient,
                      ok |-> found]
    /\ UNCHANGED <<sArg, sSelf, sConsHash, sClients>>
    /\ UNCHANGED outsidePeers

---------------------------------------------------------------------------

\* NewClientPicker up to its return: picker.set(picker.self), the goroutines started
Init ==
    /\ consHash = Add(New, Self)
    /\ clients = MapPut(<< >>, Self, NewClient(Self, ServiceName))
    /\ writer = "none"
    /\ reading = 0
    /\ picked = NoPick
    /\ mid = NoMid
    /\ registry \in {{}, {KeyOf(<<"B">>)}}
    /\ watchState = "none"
    /\ watchCh = << >>
    /\ pending = EmptyBag
    /\ cur = << >>
    /\ wPc = "new"
    /\ sPc = "start"
    /\ kvs = << >>
    /\ rPc = "start"
    /\ regErr = "nil"
    /\ stopSignal = "nil"
    /\ exitCause = "none"
    /\ changes = 0
    /\ delSeen = {}
    /\ afterDrop = {}
    /\ groups = {}
    /\ cache = << >>
    /\ rpc = NoRpc
    /\ groupRet = NotCalled
    /\ effects = {}
    /\ rpcSeq = 0
    /\ sfMap = << >>
    /\ sfCalls = << >>
    /\ fnCount = 0
    /\ doers = [c \in Callers |-> IdleDoer]
    /\ lruMax = 0
    /\ lru = << >>
    /\ lruBytes = 0
    /\ lruLast = NoLruOp
    /\ status = FALSE
    /\ srvMu = 0
    /\ starts = [c \in StartCalls |-> NotStarted]
    /\ listeners = {}
    /\ sArg = <<"A">>
    /\ sSelf = EmptyString
    /\ sConsHash = NilMap
    /\ sClients = << >>
    /\ sPicked = NoSetPick

Next ==
    \/ PickPeerRLock
    \/ \E key \in PickKeys : PickPeerReturn(key)
    \/ MutateClients
    \/ \E addr \in RemotePeers : EtcdPut(addr)
    \/ \E addr \in RemotePeers : EtcdDelete(addr)
    \/ WatchDrop
    \/ WatchNewClient
    \/ WatchEstablish
    \/ WatchRecv
    \/ HandlerLock
    \/ HandlerEvent
    \/ HandlerUnlock
    \/ SyncLock
    \/ SyncNewClient
    \/ SyncGet
    \/ SyncKv
    \/ SyncUnlock
    \/ RegisterPut
    \/ KeepAliveEnds
    \/ RegisterReturned

Spec == Init /\ [][Next]_vars

\* the picker beside a service whose name has this service's name as a prefix
ForeignNext ==
    \/ Next
    \/ EtcdPutForeign

ForeignSpec == Init /\ [][ForeignNext]_vars

\* registry changes that the live watch reports, made after the full sync:
\* every one of them reaches the picker as a watch event
WatchedPut(addr) ==
    /\ sPc = "done"
    /\ watchState = "live"
    /\ EtcdPut(addr)

WatchedDelete(addr) ==
    /\ sPc = "done"
    /\ watchState = "live"
    /\ EtcdDelete(addr)

\* the picker when peers come and go only under the live watch
OrderNext ==
    \/ PickPeerRLock
    \/ \E key \in PickKeys : PickPeerReturn(key)
    \/ MutateClients
    \/ \E addr \in RemotePeers : WatchedPut(addr)
    \/ \E addr \in RemotePeers : WatchedDelete(addr)
    \/ WatchDrop
    \/ WatchNewClient
    \/ WatchEstablish
    \/ WatchRecv
    \/ HandlerLock
    \/ HandlerEvent
    \/ HandlerUnlock
    \/ SyncLock
    \/ SyncNewClient
    \/ SyncGet
    \/ SyncKv
    \/ SyncUnlock
    \/ RegisterPut
    \/ KeepAliveEnds
    \/ RegisterReturned

OrderSpec == Init /\ [][OrderNext]_vars

ServerNext ==
    \/ NewGroup("scores")
    \/ \E group \in GroupNames, key \in RpcKeys, owner \in {"self", "remote"} :
          \E peer \in PeerGetAnswers(key) : ServerGet(group, key, owner, peer)
    \/ \E group \in GroupNames, key \in RpcKeys, owner \in {"self", "remote"} :
          \E peer \in PeerDeleteAnswers : ServerDelete(group, key, owner, peer)

ServerSpec == Init /\ [][ServerNext]_vars

FlightNext ==
    \/ \E c \in Callers, key \in FlightKeys : DoLock(c, key)
    \/ \E c \in Callers, err \in FnErrors : DoCall(c, err)
    \/ \E c \in Callers : DoSignal(c)
    \/ \E c \in Callers : DoRemove(c)
    \/ \E c \in Callers : DoWake(c)

FlightSpec == Init /\ [][FlightNext]_vars

LruNext ==
    \/ \E max \in LruMaxes : LruNew(max)
    \/ \E key \in LruKeys, value \in LruValues : LruAdd(key, value)
    \/ \E key \in LruKeys : LruGet(key)
    \/ \E key \in LruKeys : LruDelete(key)

LruSpec == Init /\ [][LruNext]_vars

StartNext ==
    \/ \E c \in StartCalls : StartCall(c)
    \/ \E c \in StartCalls : StartLock(c)
    \/ \E c \in StartCalls : StartCheck(c)
    \/ \E c \in StartCalls, ok \in BOOLEAN : StartListen(c, ok)
    \/ \E c \in StartCalls, err \in {"nil", "closed"} : StartServeReturns(c, err)

StartSpec == Init /\ [][StartNext]_vars

PeersNext ==
    \/ \E self \in SelfArgs : NewSetPicker(self)
    \/ \E peers \in PeerLists : Set(peers)
    \/ \E replicas \in 1 .. Replicas, peers \in PeerLists : SetWithReplicas(replicas, peers)
    \/ \E key \in PickKeys : SetPickPeer(key)

PeersSpec == Init /\ [][PeersNext]_vars

---------------------------------------------------------------------------
(* The picker's properties *)

Members == DOMAIN clients

\* the addresses registered under the service name
Registered == {AddrOf(k) : k \in registry}

\* the sync is over, and every event delivered so far has been processed
AgentIdle ==
    /\ sPc = "done"
    /\ wPc = "loop"
    /\ writer = "none"
    /\ watchCh = << >>
    /\ \A a \in BagToSet(pending) : a = << >>

\* C1: whenever no writer holds the picker lock, the addresses of the client
\* map are the addresses of the ring, and self is among them.
C1_MembersMatchRing ==
    writer = "none" =>
        /\ Members = RingAddrs
        /\ Self \in Members
        /\ Self \in RingAddrs

\* a remote peer was a member and was removed again by a delete event, self's
\* registration was revoked, and every delivered event has been processed
C1_Witness ==
    /\ AgentIdle
    /\ delSeen = {<<"B">>}
    /\ <<"B">> \notin Members
    /\ rPc = "returned"
    /\ regErr = "nil"
    /\ watchState = "live"

\* C2: with the watch live, once the sync is over and every delivered event is
\* processed, the members are the registered addresses plus self.
C2_NoChangeLost ==
    (alive /\ AgentIdle /\ watchState = "live") => Members = Registered \cup {Self}

\* C3: a member whose key the registry deleted under a live watch, and did
\* not create again, is no member once every delivered event is processed,
\* so that no later PickPeer returns it.
C3_DeletedPeerGone ==
    (alive /\ AgentIdle) =>
        \A b \in delSeen :
            /\ b \notin Members
            /\ b \notin RingAddrs
            /\ \A key \in PickKeys : PickPeer(consHash, clients, key).peer.addr # b

\* C4: a PickPeer call returns found, the client the map holds for the
\* address the ring gives for the key, which is not nil, and isSelf exactly
\* when that address is self; not found only for a key the ring maps to nothing.
C4_PickPeerResult ==
    [][reading' < reading =>
        LET r == picked'
            addr == Get(consHash, r.key)
        IN /\ r.ok <=> addr # EmptyString
           /\ r.ok
           /\ addr \in DOMAIN clients
           /\ r.peer = clients[addr]
           /\ ~r.peer.nil
           /\ r.isSelf <=> addr = Self]_vars

\* a call returned the remote peer's client
C4_Witness ==
    /\ picked.ok
    /\ ~picked.isSelf
    /\ picked.peer = NewClient(<<"B">>, ServiceName)

\* C5: the ring and the client map change only in steps of an agent goroutine
\* that holds the write lock, with no reader inside; the lock is not released
\* between the ring's and the client map's update.
C5_MutationsLocked ==
    [][/\ (consHash' # consHash \/ clients' # clients) =>
            /\ writer \in {"sync", "handler"}
            /\ writer' = writer
            /\ reading = 0
            /\ reading' = 0
       /\ (writer # "none" /\ writer' = "none") => (mid.op = "none" /\ Members = RingAddrs)
       /\ reading' > reading => (writer = "none" /\ mid.op = "none")]_vars

\* a handler is between the ring's and the client map's update of a remove
C5_Witness ==
    /\ writer = "handler"
    /\ mid.op = "remove"
    /\ reading = 0

\* C6: no registry failure ends the process.
C6_KeepsServing ==
    exitCause \notin {"watch: clientv3.New", "sync: clientv3.New", "sync: cli.Get",
                      "register: log.Fatalf"}

\* C7: once every delivered event is processed, the members reflect every
\* change of a peer key made after the watch dropped.
C7_ChangesAfterDropSeen ==
    (alive /\ AgentIdle) =>
        \A a \in afterDrop : a \in Members <=> KeyOf(a) \in registry

\* C8: when the keep-alive ends and the lease is revoked without error, the
\* register goroutine ends and the process keeps running.
C8_RegisterEndsCleanly ==
    exitCause # "register: close of nil channel"

---------------------------------------------------------------------------
(* The server's properties *)

\* C9: Get answers an empty key with "key required", else an unknown group
\* with "group not found", else a failed Group.Get with the group's error,
\* each with an empty value; otherwise no error and the bytes Group.Get gave.
C9_GetReply ==
    [][(rpcSeq' # rpcSeq /\ rpc'.method = "Get") =>
        LET q == rpc'
        IN /\ q.key = "" =>
                (q.err = "key required" /\ q.value = NoBytes /\ ~groupRet'.called)
           /\ (q.key # "" /\ q.group \notin groups) =>
                (q.err = "group not found" /\ q.value = NoBytes /\ ~groupRet'.called)
           /\ (q.key # "" /\ q.group \in groups) =>
                /\ groupRet'.called
                /\ groupRet'.err # "nil" => (q.err = groupRet'.err /\ q.value = NoBytes)
                /\ groupRet'.err = "nil" => (q.err = "nil" /\ q.value = groupRet'.val)]_vars

\* a Get was answered with the loader's bytes
C9_Witness ==
    /\ rpc.method = "Get"
    /\ rpc.err = "nil"
    /\ rpc.value = "630"
    /\ groupRet.called
    /\ "loader" \in effects

\* C10: Delete answers an empty key or an unknown group with an error and
\* false, and does nothing to the group; when Group.Delete succeeds it
\* answers with the boolean Group.Delete gave.
C10_DeleteReply ==
    [][(rpcSeq' # rpcSeq /\ rpc'.method = "Delete") =>
        LET q == rpc'
        IN /\ (q.key = "" \/ q.group \notin groups) =>
                /\ q.err # "nil"
                /\ q.flag = FALSE
                /\ ~groupRet'.called
                /\ effects' = {}
                /\ cache' = cache
           /\ (q.key # "" /\ q.group \in groups) => groupRet'.called
           /\ (groupRet'.called /\ groupRet'.err = "nil") =>
                (q.err = "nil" /\ q.flag = groupRet'.flag)]_vars

\* a Delete with an empty key was refused while the group held an entry
C10_Witness ==
    /\ rpc.method = "Delete"
    /\ rpc.key = ""
    /\ rpc.group = "scores"
    /\ rpc.err = "key required"
    /\ "scores" \in groups
    /\ DOMAIN cache["scores"] # {}

---------------------------------------------------------------------------
(* The picker's properties, continued *)

\* C11: every member is self or the address of a key "{serviceName}/{addr}";
\* a key of a service whose name only starts with the service name adds none.
C11_OnlyServiceKeys ==
    \A a \in Members \cup RingAddrs :
        /\ a # AddrOf(ForeignKey)
        /\ a \in {Self} \cup RemotePeers

\* C14: when every change of a peer's key is reported by the watch, the last
\* event emitted for the address decides: once all events are processed the
\* address is in the ring and the client map if that event was a create (its
\* key is registered), and in neither if it was a delete.
C14_EventsInOrder ==
    (alive /\ AgentIdle) =>
        \A b \in RemotePeers :
            /\ KeyOf(b) \in registry => (b \in Members /\ b \in RingAddrs)
            /\ KeyOf(b) \notin registry => (b \notin Members /\ b \notin RingAddrs)

\* the positions of the ring that map to the address
PositionsOf(a) == {i \in 1 .. Len(consHash.keys) : consHash.hashMap[consHash.keys[i]] = a}

\* C15: no address is added to the ring while it is in it: every address of
\* the ring has exactly Replicas positions, and the ring has no others.
C15_NoDuplicateAdd ==
    /\ \A a \in RingAddrs : Cardinality(PositionsOf(a)) = Replicas
    /\ Len(consHash.keys) = Replicas * Cardinality(RingAddrs)

\* the full sync comes to the key of B, which a watch handler has added: the
\* snapshot lists an address the watch has reported
C15_Witness ==
    /\ writer = "sync"
    /\ sPc = "loop"
    /\ mid.op = "none"
    /\ kvs # << >>
    /\ AddrOf(Head(kvs)) = <<"B">>
    /\ <<"B">> \in Members
    /\ Cardinality(PositionsOf(<<"B">>)) = Replicas

---------------------------------------------------------------------------
(* The single-flight coordinator's properties *)

\* C12: for one key at most one Do call is between inserting and removing the
\* entry, so every call that arrives meanwhile joins it; fn runs once per call
\* object; every caller returns the pair that one invocation captured; the
\* entry is in the map only while its originator has not removed it.
C12_SingleFlight ==
    /\ \A c1, c2 \in Callers :
          (/\ c1 # c2
           /\ doers[c1].pc \in Leading
           /\ doers[c2].pc \in Leading) => doers[c1].key # doers[c2].key
    /\ \A c \in Callers :
          doers[c].pc = "wait" =>
              \E l \in Callers : /\ doers[l].call = doers[c].call
                                  /\ doers[l].pc \in Leading \cup {"done"}
                                  /\ doers[l].key = doers[c].key
    /\ \A i \in 1 .. Len(sfCalls) : sfCalls[i].runs <= 1
    /\ fnCount = Cardinality({i \in 1 .. Len(sfCalls) : sfCalls[i].runs = 1})
    /\ \A c \in Callers :
          doers[c].pc = "done" =>
              /\ sfCalls[doers[c].call].runs = 1
              /\ doers[c].ret.val = sfCalls[doers[c].call].val
              /\ doers[c].ret.err = sfCalls[doers[c].call].err
    /\ \A c1, c2 \in Callers :
          (/\ doers[c1].pc = "done"
           /\ doers[c2].pc = "done"
           /\ doers[c1].call = doers[c2].call)
              => /\ doers[c1].ret.val = doers[c2].ret.val
                 /\ doers[c1].ret.err = doers[c2].ret.err
    /\ \A key \in DOMAIN sfMap :
          \E l \in Callers : /\ doers[l].key = key
                              /\ doers[l].call = sfMap[key]
                              /\ doers[l].pc \in Leading

\* two calls shared one failed invocation of fn, and a later call for the same
\* key invoked fn again
C12_Witness ==
    \E c1, c2, c3 \in Callers :
        /\ doers[c1].pc = "done" /\ doers[c2].pc = "done" /\ doers[c3].pc = "done"
        /\ doers[c1].call = doers[c2].call
        /\ ~doers[c1].ret.shared /\ doers[c2].ret.shared
        /\ doers[c1].ret.err = "failed" /\ doers[c2].ret.err = "failed"
        /\ doers[c3].key = doers[c1].key
        /\ doers[c3].call # doers[c1].call
        /\ doers[c3].ret.val # doers[c1].ret.val
        /\ sfMap = << >>

---------------------------------------------------------------------------
(* The LRU cache's properties *)

RECURSIVE SumSizes(_)
SumSizes(ll) == IF ll = << >> THEN 0 ELSE EntrySize(Head(ll)) + SumSizes(Tail(ll))

\* C13: with max_bytes > 0 the accounted bytes never exceed max_bytes; what an
\* add evicted is the least-recently-used end of the list, in that order, and
\* not one entry more than needed; with max_bytes = 0 an add evicts nothing.
C13_LruBound ==
    /\ lruBytes = SumSizes(lru)
    /\ lruMax > 0 => lruBytes <= lruMax
    /\ lruLast.op = "add" =>
          /\ lruLast.full = lruLast.evicted \o lru
          /\ lruMax = 0 => lruLast.evicted = << >>
          /\ lruLast.evicted # << >> =>
                EntrySize(lruLast.evicted[Len(lruLast.evicted)]) + lruBytes > lruMax

\* an add of an entry larger than max_bytes evicted two older entries and then
\* the entry itself
C13_Witness ==
    /\ lruMax > 0
    /\ lruLast.op = "add"
    /\ Len(lruLast.evicted) = 3
    /\ lruLast.evicted[3].key = lruLast.key
    /\ EntrySize(lruLast.evicted[3]) > lruMax
    /\ lru = << >>

---------------------------------------------------------------------------
(* Server.Start's properties *)

\* the Start calls that went past the status check
Passed ==
    {c \in StartCalls :
        \/ starts[c].pc \in {"listen", "serve"}
        \/ starts[c].pc = "returned" /\ starts[c].ret # "server already running"}

\* C16: at most one Start call is ever past the status check, only that call
\* opens a listener, and a call that returns "server already running" came
\* after it, holds no mutex, opened no listener and left the status true.
C16_OneStartPasses ==
    /\ Cardinality(Passed) <= 1
    /\ listeners \subseteq Passed
    /\ \A c \in StartCalls :
          starts[c].ret = "server already running" =>
              /\ Passed # {}
              /\ status
              /\ srvMu # c
              /\ c \notin listeners

\* one call serves while two others have been turned away
C16_Witness ==
    \E c \in StartCalls :
        /\ starts[c].pc = "serve"
        /\ listeners = {c}
        /\ \A d \in StartCalls \ {c} : starts[d].ret = "server already running"

\* C17: the status flag is true exactly while a Start call listens or serves.
C17_StatusIffRunning ==
    status <=> \E c \in StartCalls : starts[c].pc \in {"listen", "serve"}

\* C18: a Start call that has returned does not hold the server mutex.
C18_MutexReleased ==
    \A c \in StartCalls : starts[c].pc = "returned" => srvMu # c

---------------------------------------------------------------------------
(* The Set-based picker's properties *)

\* C19: a PickPeer call for a key that the ring maps to the address given to
\* NewClientPicker, on a picker whose peer list holds that address, returns
\* (nil, false).
C19_NeverPicksSelf ==
    (sPicked.called /\ sPicked.listed /\ sPicked.owner = sArg) =>
        /\ ~sPicked.ok
        /\ sPicked.peer = NilClient

====
